---- MODULE Spec2Model ----
(***************************************************************************)
(* Dealership lead assistant: the /chat, /tool-call-result,                *)
(* /generate-summary and /get-summary request handlers of                  *)
(* server/routes/all_routes.py and the helpers of                          *)
(* server/helpers/llm_utils.py they call, as a state machine over the      *)
(* client-held transcript and the relational store.                        *)
(*                                                                         *)
(* Python values are modelled as follows.  A str is a TLA+ string.  A      *)
(* value that may be None is a sequence of length at most one: None is     *)
(* <<>> and the value v is <<v>>.  A dict is a record; a key the dict      *)
(* lacks is a field the record lacks, except in messages, where an         *)
(* absent "tool_calls" key is the empty sequence and an absent             *)
(* "tool_call_id" key is the empty string.                                 *)
(***************************************************************************)
EXTENDS Integers, Sequences, FiniteSets, TLC

(***************************************************************************)
(* Bounds of the model.                                                    *)
(***************************************************************************)
\* size of the longest scenario: the messages of the transcript the client starts
\* with, the messages the client adds, and the requests, a request whose model
\* answer carries n > 1 tool calls counting n
MaxSteps == 3
\* longest transcript the client starts a conversation with
MaxInit == 2
\* most tool calls in one model message
MaxCalls == 2

(***************************************************************************)
(* Strings.                                                                *)
(***************************************************************************)
None == <<>>

Some(v) == <<v>>

\* Python: sub in s
Contains(s, sub) ==
    \E i \in 1..(Len(s) - Len(sub) + 1) : SubSeq(s, i, i + Len(sub) - 1) = sub

Min(S) == CHOOSE x \in S : \A y \in S : x <= y

UpperCase ==
    <<"A", "B", "C", "D", "E", "F", "G", "H", "I", "J", "K", "L", "M",
      "N", "O", "P", "Q", "R", "S", "T", "U", "V", "W", "X", "Y", "Z">>

LowerCase ==
    <<"a", "b", "c", "d", "e", "f", "g", "h", "i", "j", "k", "l", "m",
      "n", "o", "p", "q", "r", "s", "t", "u", "v", "w", "x", "y", "z">>

LowerChar(c) ==
    IF \E i \in 1..26 : UpperCase[i] = c
    THEN LowerCase[CHOOSE i \in 1..26 : UpperCase[i] = c]
    ELSE c

RECURSIVE LowerFrom(_, _)
LowerFrom(s, i) ==
    IF i > Len(s) THEN "" ELSE LowerChar(SubSeq(s, i, i)) \o LowerFrom(s, i + 1)

\* Python: s.lower()
Lower(s) == LowerFrom(s, 1)

(***************************************************************************)
(* Messages and tool calls.                                                *)
(***************************************************************************)
Msg(role, content, tool_calls, tool_call_id) ==
    [role |-> role, content |-> content, tool_calls |-> tool_calls,
     tool_call_id |-> tool_call_id]

ToolCall(id, name, arguments) ==
    [id |-> id, type |-> "function",
     function |-> [name |-> name, arguments |-> arguments]]

\* the persona prompt of /chat, abridged to the sentences the handlers' substring
\* tests can meet
PersonaPrompt ==
    "You are Patricia, a knowledgeable and friendly customer support agent at Nissan of Hendersonville. You will receive a message with the current time in EST. Signal the end of the conversation with a clear closing message such as: Thank you for chatting with me today. Have a great day!"

system_message == Msg("system", Some(PersonaPrompt), <<>>, "")

PersonaMarker == "You are Patricia"

TimeMarker == "Current time:"

\* the wall clock readings a request may see, formatted '%Y-%m-%d %H:%M:%S EST'
Times == {"2025-03-01 10:00:00 EST"}

time_context_message(now) == Msg("system", Some("Current time: " \o now), <<>>, "")

ProcessingNotice == "Processing your request..."

ParseErrorNotice == "Error parsing tool arguments."

ClosingMessage == "Thank you for chatting with me today... Have a great day!"

PlainReply == "We have two Nissan models in stock."

(***************************************************************************)
(* /chat, the system-context step (all_routes.py 187-228).                 *)
(***************************************************************************)
\* the texts of the system messages of the model, and for each the markers the
\* handlers look for that it contains (the substring tests, computed once)
SystemTexts ==
    {PersonaPrompt, "{\"conversation_id\": \"conv-A\"}", "Current time: 2025-02-28 09:00:00 EST"}
    \cup {"Current time: " \o now : now \in Times}

Markers == {PersonaMarker, TimeMarker, "conversation_id"}

MarkersIn == [text \in SystemTexts |-> {marker \in Markers : Contains(text, marker)}]

\* marker in content, for the content of a system message
HasMarker(content, marker) == marker \in MarkersIn[content]

\* any(msg.get("role") == "system" and marker in msg.get("content", "") for msg in h):
\* "true", "false", or "raise" when a system message with content None is met
\* before a match ("in" on None is a TypeError; any() stops at the first match)
MarkerScan(h, marker) ==
    LET bad == {i \in DOMAIN h : h[i].role = "system" /\ h[i].content = None}
        hit == {i \in DOMAIN h : /\ h[i].role = "system"
                                 /\ h[i].content # None
                                 /\ HasMarker(h[i].content[1], marker)}
    IN  IF hit # {} /\ (bad = {} \/ Min(hit) < Min(bad)) THEN "true"
        ELSE IF bad # {} THEN "raise"
        ELSE "false"

\* the persona prompt added at the end instead of the beginning
InsertPersonaLast(h) == h \o <<system_message>>

InsertPersona(h) == <<system_message>> \o h

\* the time context put in front of the transcript instead of at its end
InsertTimeContextFirst(h, now) == <<time_context_message(now)>> \o h

AppendTimeContext(h, now) == Append(h, time_context_message(now))

\* the step if it added the time context without looking for one
SystemContextStepUnchecked(h, now) ==
    LET has_system_message == MarkerScan(h, PersonaMarker)
        h1 == IF has_system_message = "false" THEN InsertPersona(h) ELSE h
    IN  [raised |-> has_system_message = "raise", history |-> AppendTimeContext(h1, now)]

SystemContextStep(h, now) ==
    LET has_system_message == MarkerScan(h, PersonaMarker)
        h1 == IF has_system_message = "false" THEN InsertPersona(h) ELSE h
        has_time_context ==
            IF has_system_message = "raise" THEN "raise" ELSE MarkerScan(h1, TimeMarker)
        h2 == IF has_time_context = "false" THEN AppendTimeContext(h1, now) ELSE h1
    IN  [raised |-> has_time_context = "raise", history |-> h2]

(***************************************************************************)
(* detect_end_of_conversation (llm_utils.py 253-286).                      *)
(***************************************************************************)
end_phrases ==
    {"goodbye", "bye", "thank you for chatting", "have a great day",
     "is there anything else", "anything else i can help", "end of conversation",
     "conversation is complete", "conversation has ended", "wrapping up",
     "summarizing our conversation", "conversation summary"}

\* the phrase test if the content were not lower-cased first
HasEndPhraseCaseSensitive(content) ==
    \E phrase \in end_phrases : Contains(content, phrase)

HasEndPhrase(content) ==
    LET lowered == Lower(content)
    IN  \E phrase \in end_phrases : Contains(lowered, phrase)

\* the texts of the assistant messages of the model, and whether each holds an end
\* phrase (computed once)
AssistantTexts == {"", "hi", ProcessingNotice, ParseErrorNotice, PlainReply, ClosingMessage}

EndsConversation == [text \in AssistantTexts |-> HasEndPhrase(text)]

MinMessages == 3

RecentWindow == 5

\* the detector if it read the messages of every role
detect_end_in_any_role(h) ==
    IF Len(h) < MinMessages THEN "false"
    ELSE
        LET first == IF Len(h) > RecentWindow THEN Len(h) - RecentWindow + 1 ELSE 1
            stops == {i \in first..Len(h) :
                         \/ h[i].content = None
                         \/ HasEndPhrase(h[i].content[1])}
            last == CHOOSE i \in stops : \A j \in stops : j <= i
        IN  IF stops = {} THEN "false"
            ELSE IF h[last].content = None THEN "raise"
            ELSE "true"

\* "true", "false", or "raise": .lower() on a None content is an AttributeError
detect_end_of_conversation(h) ==
    IF Len(h) < MinMessages THEN "false"
    ELSE
        LET first == IF Len(h) > RecentWindow THEN Len(h) - RecentWindow + 1 ELSE 1
            assistants == {i \in first..Len(h) : h[i].role = "assistant"}
            \* scanning from the newest message, the first assistant message that
            \* ends the loop: one with content None, or one with an end phrase
            stops == {i \in assistants :
                         \/ h[i].content = None
                         \/ EndsConversation[h[i].content[1]]}
            last == CHOOSE i \in stops : \A j \in stops : j <= i
        IN  IF stops = {} THEN "false"
            ELSE IF h[last].content = None THEN "raise"
            ELSE "true"

(***************************************************************************)
(* The conversation-id lookup of /chat and /tool-call-result               *)
(* (all_routes.py 293-300, 498-505).                                       *)
(***************************************************************************)
ConvIdContent == "{\"conversation_id\": \"conv-A\"}"

\* json.loads(content).get("conversation_id") on the system contents of the model
ParseConversationId(content) ==
    IF content = ConvIdContent
    THEN [ok |-> TRUE, id |-> Some("conv-A")]
    ELSE [ok |-> FALSE, id |-> None]

ConversationIdLookup(h) ==
    LET bad == {i \in DOMAIN h : h[i].role = "system" /\ h[i].content = None}
        hit == {i \in DOMAIN h : /\ h[i].role = "system"
                                 /\ h[i].content # None
                                 /\ HasMarker(h[i].content[1], "conversation_id")
                                 /\ ParseConversationId(h[i].content[1]).ok}
    IN  IF hit # {} /\ (bad = {} \/ Min(hit) < Min(bad))
        THEN [raised |-> FALSE, id |-> ParseConversationId(h[Min(hit)].content[1]).id]
        ELSE [raised |-> bad # {}, id |-> None]

(***************************************************************************)
(* The tools: fetch_cars (llm_utils.py 15-79) and find_car_review_videos   *)
(* (llm_utils.py 288-352).                                                 *)
(***************************************************************************)
ArgsFetch == "{\"make\": \"nissan\", \"model\": \"\", \"year\": -1, \"max_price\": 30000}"

ArgsVideo == "{\"car_make\": \"Nissan\", \"car_model\": \"Kicks\"}"

ArgsMalformed == "{\"make\": \"nissan\""

ArgPayloads == {ArgsFetch, ArgsVideo, ArgsMalformed}

\* json.loads(args_str) on the argument payloads of the model
json_loads_args(args_str) ==
    CASE args_str = ArgsFetch ->
            [ok |-> TRUE,
             value |-> [make |-> "nissan", model |-> "", year |-> -1, max_price |-> 30000]]
      [] args_str = ArgsVideo ->
            [ok |-> TRUE, value |-> [car_make |-> "Nissan", car_model |-> "Kicks"]]
      [] OTHER -> [ok |-> FALSE, value |-> <<>>]

Car(stock_number, vin, make, model, year, price, mileage, color) ==
    [stock_number |-> stock_number, vin |-> vin, make |-> make, model |-> model,
     year |-> year, price |-> price, mileage |-> mileage, color |-> color]

\* the rows of the car_inventory table
CarInventory ==
    <<Car("ABC123", "VIN1", "Nissan", "Kicks", 2025, 22000, 10, "Red"),
      Car("ABC1234", "VIN2", "Nissan", "Rogue", 2023, 31000, 20000, "Blue"),
      Car("XYZ9", "VIN3", "Toyota", "Camry", 2020, 18000, 60000, "red")>>

Unset == -1

\* a string filter is active when the key is present and the value non-empty
StrActive(fp, k) == k \in DOMAIN fp /\ fp[k] # ""

\* a numeric filter is active when the key is present and the value is not -1
NumActive(fp, k) == k \in DOMAIN fp /\ fp[k] # Unset

\* SQL: text LIKE pattern, where % stands for any run of characters and _ for any
\* one character (the pattern is not escaped)
RECURSIVE LikeMatch(_, _)
LikeMatch(pattern, text) ==
    IF pattern = "" THEN text = ""
    ELSE
        LET c == SubSeq(pattern, 1, 1)
            rest == SubSeq(pattern, 2, Len(pattern))
        IN  IF c = "%"
            THEN \/ LikeMatch(rest, text)
                 \/ text # "" /\ LikeMatch(pattern, SubSeq(text, 2, Len(text)))
            ELSE /\ text # ""
                 /\ c = "_" \/ c = SubSeq(text, 1, 1)
                 /\ LikeMatch(rest, SubSeq(text, 2, Len(text)))

\* column.ilike(f"%{value}%"): column ILIKE '%value%', case ignored
ILike(column, value) == LikeMatch("%" \o Lower(value) \o "%", Lower(column))

CarMatches(car, fp) ==
    /\ StrActive(fp, "make") => ILike(car.make, fp["make"])
    /\ StrActive(fp, "model") => ILike(car.model, fp["model"])
    /\ StrActive(fp, "color") => ILike(car.color, fp["color"])
    /\ StrActive(fp, "stock_number") => car.stock_number = fp["stock_number"]
    /\ StrActive(fp, "vin") => car.vin = fp["vin"]
    /\ NumActive(fp, "year") => car.year >= fp["year"]
    /\ NumActive(fp, "max_year") => car.year <= fp["max_year"]
    /\ NumActive(fp, "price") => car.price >= fp["price"]
    /\ NumActive(fp, "max_price") => car.price <= fp["max_price"]
    /\ NumActive(fp, "mileage") => car.mileage <= fp["mileage"]

fetch_cars(filter_params) ==
    SelectSeq(CarInventory, LAMBDA car : CarMatches(car, filter_params))

\* json.dumps of one to_dict(car); price is float(car.price)
DumpCar(car) ==
    "{\"stock_number\": \"" \o car.stock_number \o "\", \"vin\": \"" \o car.vin
    \o "\", \"make\": \"" \o car.make \o "\", \"model\": \"" \o car.model
    \o "\", \"year\": " \o ToString(car.year) \o ", \"price\": " \o ToString(car.price)
    \o ".0, \"mileage\": " \o ToString(car.mileage) \o ", \"color\": \"" \o car.color
    \o "\"}"

RECURSIVE JoinCars(_, _)
JoinCars(cars, i) ==
    IF i > Len(cars) THEN ""
    ELSE (IF i > 1 THEN ", " ELSE "") \o DumpCar(cars[i]) \o JoinCars(cars, i + 1)

\* json.dumps(result) of a fetch_cars result
DumpCars(cars) == "[" \o JoinCars(cars, 1) \o "]"

\* what the video search can meet: no API key, a failing API, an answering API
VideoOutcomes == {"nokey", "fail", "ok"}

\* func_args.get(key) rendered in an f-string
ArgText(func_args, key) == IF key \in DOMAIN func_args THEN func_args[key] ELSE "None"

\* json.dumps(find_car_review_videos(car_make, car_model, None)); the search query
\* is "{car_make} {car_model} review"
DumpVideos(car_make, car_model, outcome) ==
    CASE outcome = "nokey" ->
            "{\"videos\": [], \"error\": \"YouTube API key not configured.\"}"
      [] outcome = "fail" ->
            "{\"videos\": [], \"error\": \"Failed to search for car review videos\"}"
      [] OTHER ->
            "{\"videos\": [{\"id\": \"v1\", \"title\": \"" \o car_make \o " " \o car_model
            \o " review\"}]}"

\* the remote video-search API is called once the API key is found
VideoSearches(outcome) == IF outcome = "nokey" THEN 0 ELSE 1

(***************************************************************************)
(* generate_conversation_summary and save_summary_to_db                    *)
(* (llm_utils.py 81-216).                                                  *)
(***************************************************************************)
SummaryModel == "o3-mini-2025-01-31"

SummaryJsonFull ==
    "{\"sentiment\": \"positive\", \"keywords\": [\"kicks\"], \"summary\": \"Asked about the Kicks.\", \"department\": \"Service\", \"insights\": {\"urgency\": \"high\", \"upsell_opportunity\": true, \"customer_interest\": \"high\", \"additional_notes\": \"Call back.\"}}"

\* a second complete summary, of another conversation
SummaryJsonOther ==
    "{\"sentiment\": \"negative\", \"keywords\": [\"brakes\"], \"summary\": \"Complained about a repair.\", \"department\": \"Service\", \"insights\": {\"urgency\": \"low\", \"upsell_opportunity\": false, \"customer_interest\": \"low\", \"additional_notes\": \"Apologise.\"}}"

SummaryJsonPartial == "{\"sentiment\": \"positive\"}"

SummaryJsonList == "[]"

SummaryNotJson == "I could not summarize this conversation."

\* what the summary's model call can do: raise, or answer with a content
SummaryReplies ==
    {[ok |-> FALSE, content |-> ""]}
    \cup {[ok |-> TRUE, content |-> c] :
            c \in {SummaryJsonFull, SummaryJsonPartial, SummaryJsonList, SummaryNotJson}}

\* json.loads(response.choices[0].message.content) on the contents of the model;
\* kind is "object", "list" or "error"
json_loads_summary(content) ==
    CASE content = SummaryJsonFull ->
            [kind |-> "object",
             value |-> [sentiment |-> "positive", keywords |-> <<"kicks">>,
                        summary |-> "Asked about the Kicks.", department |-> "Service",
                        insights |-> [urgency |-> "high", upsell_opportunity |-> TRUE,
                                      customer_interest |-> "high",
                                      additional_notes |-> "Call back."]]]
      [] content = SummaryJsonOther ->
            [kind |-> "object",
             value |-> [sentiment |-> "negative", keywords |-> <<"brakes">>,
                        summary |-> "Complained about a repair.", department |-> "Service",
                        insights |-> [urgency |-> "low", upsell_opportunity |-> FALSE,
                                      customer_interest |-> "low",
                                      additional_notes |-> "Apologise."]]]
      [] content = SummaryJsonPartial ->
            [kind |-> "object", value |-> [sentiment |-> "positive"]]
      [] content = SummaryJsonList -> [kind |-> "list", value |-> <<>>]
      [] OTHER -> [kind |-> "error", value |-> <<>>]

\* d[key] = value on a dict
SetKey(d, key, value) ==
    [k \in DOMAIN d \cup {key} |-> IF k = key THEN value ELSE d[k]]

\* the filter of lines 98-102; an assistant message carries the "tool_calls" key
\* exactly when its tool_calls are non-empty
filtered_history(h) ==
    SelectSeq(h, LAMBDA msg : /\ msg.role \in {"user", "assistant"}
                              /\ ~(msg.role = "assistant" /\ msg.tool_calls # <<>>))

\* the default summary with the sentiment it reports for unknown interest
DefaultSummaryUnknown(conversation_id, error_text) ==
    [conversation_id |-> conversation_id,
     sentiment |-> "unknown",
     keywords |-> <<>>,
     summary |-> "Error generating summary. Please try again.",
     department |-> "Sales",
     insights |-> [urgency |-> "low", upsell_opportunity |-> FALSE,
                   customer_interest |-> "unknown",
                   additional_notes |-> "Error: " \o error_text]]

\* the summary returned from the except branch of lines 170-185
DefaultSummary(conversation_id, error_text) ==
    [conversation_id |-> conversation_id,
     sentiment |-> "neutral",
     keywords |-> <<"error">>,
     summary |-> "Error generating summary. Please try again.",
     department |-> "Sales",
     insights |-> [urgency |-> "low", upsell_opportunity |-> FALSE,
                   customer_interest |-> "unknown",
                   additional_notes |-> "Error: " \o error_text]]

\* the rows save_summary_to_db adds to auto_lead_interaction_details: none when a
\* key of summary_data is missing (KeyError, caught) or the commit fails (rollback)
save_summary_to_db(summary_data, db_ok) ==
    IF /\ {"summary", "sentiment", "keywords", "insights"} \subseteq DOMAIN summary_data
       /\ db_ok
    THEN <<[conversation_summary |-> summary_data["summary"],
            sentiment |-> summary_data["sentiment"],
            product_keywords |-> summary_data["keywords"],
            priority_flag |-> summary_data["insights"]["urgency"] = "high",
            next_steps_recommendation |-> summary_data["insights"]["additional_notes"]]>>
    ELSE <<>>

\* services.analytics_service.store_request_analytics: one analytics_data row, or
\* none when the write fails
store_request_analytics(model, analytics_ok) ==
    IF analytics_ok THEN <<[model |-> model]>> ELSE <<>>

\* env: the reply of the model API (summary_reply), the uuid4 drawn (uuid) and
\* whether the two writes succeed (analytics_ok, db_ok)
generate_conversation_summary(h, conversation_id, env) ==
    LET id == IF conversation_id = None THEN env.uuid ELSE conversation_id[1]
        messages_for_analysis == filtered_history(h)
        parsed == json_loads_summary(env.summary_reply.content)
    IN  IF ~env.summary_reply.ok
        THEN [summary |-> DefaultSummary(id, "Connection error."),
              analytics |-> <<>>, rows |-> <<>>, persisted |-> FALSE]
        ELSE IF parsed.kind = "error"
        THEN [summary |-> DefaultSummary(id, "Expecting value: line 1 column 1 (char 0)"),
              analytics |-> <<>>, rows |-> <<>>, persisted |-> FALSE]
        ELSE IF parsed.kind = "list"
        THEN [summary |-> DefaultSummary(id, "list indices must be integers or slices, not str"),
              analytics |-> <<>>, rows |-> <<>>, persisted |-> FALSE]
        ELSE
            LET summary_json == SetKey(parsed.value, "conversation_id", id)
                rows == save_summary_to_db(summary_json, env.db_ok)
            IN  [summary |-> summary_json,
                 analytics |-> store_request_analytics(SummaryModel, env.analytics_ok),
                 rows |-> rows, persisted |-> rows # <<>>]

\* the summary built from a row of auto_lead_interaction_details (lines 234-245);
\* created_at is the rank of the row in the order of creation
SummaryOfRow(conversation_id, rows, i) ==
    [conversation_id |-> conversation_id,
     sentiment |-> rows[i].sentiment,
     keywords |-> rows[i].product_keywords,
     summary |-> rows[i].conversation_summary,
     department |-> "Sales",
     insights |-> [urgency |-> IF rows[i].priority_flag THEN "high" ELSE "medium",
                   additional_notes |-> rows[i].next_steps_recommendation],
     created_at |-> i]

\* the lookup if it returned the oldest row
get_oldest_conversation_summary(conversation_id, rows, query_ok) ==
    IF ~query_ok \/ rows = <<>> THEN None ELSE Some(SummaryOfRow(conversation_id, rows, 1))

\* llm_utils.py 218-251; rows is the table in the order of creation, so that
\* order_by(created_at.desc()).first() is its last row; a failing query is caught
\* and gives None
get_conversation_summary(conversation_id, rows, query_ok) ==
    IF ~query_ok THEN None
    ELSE IF rows = <<>> THEN None
    ELSE Some(SummaryOfRow(conversation_id, rows, Len(rows)))

(***************************************************************************)
(* What a request handler does: the HTTP response (status, error,          *)
(* reply = chat_response or final_response, history = conversation_history *)
(* or final_conversation_history, tool_call_detected, summary) and its     *)
(* effects (analytics and rows added to the store, ids of the tool calls   *)
(* executed, calls made to the model API by the route and by the summary   *)
(* generator, searches sent to the video API).                             *)
(***************************************************************************)
Outcome(status, error, reply, h, detected, summary, gen, executed, completions, searches) ==
    [status |-> status, error |-> error, reply |-> reply, history |-> h,
     tool_call_detected |-> detected, summary |-> summary,
     analytics |-> gen.analytics, rows |-> gen.rows, summary_calls |-> gen.calls,
     executed |-> executed, completions |-> completions, video_searches |-> searches]

NoSummaryRun == [analytics |-> <<>>, rows |-> <<>>, calls |-> 0]

\* an error response: jsonify({"error": ...}), status
ErrorOutcome(status, error, executed, completions, searches) ==
    Outcome(status, Some(error), None, None, FALSE, None, NoSummaryRun,
            executed, completions, searches)

\* the end-of-conversation block shared by /chat and /tool-call-result
\* (all_routes.py 288-304, 493-509): "raise", or the summary and its effects
SummaryBlock(h, env) ==
    LET ended == detect_end_of_conversation(h)
        lookup == ConversationIdLookup(h)
    IN  IF ended = "raise" THEN [raised |-> TRUE, summary |-> None, run |-> NoSummaryRun]
        ELSE IF ended = "false"
        THEN [raised |-> FALSE, summary |-> None, run |-> NoSummaryRun]
        ELSE IF lookup.raised
        THEN [raised |-> TRUE, summary |-> None, run |-> NoSummaryRun]
        ELSE
            LET gen == generate_conversation_summary(h, lookup.id, env)
            IN  [raised |-> FALSE, summary |-> Some(gen.summary),
                 run |-> [analytics |-> gen.analytics, rows |-> gen.rows, calls |-> 1]]

(***************************************************************************)
(* POST /chat (all_routes.py 101-316).                                     *)
(***************************************************************************)
RECURSIVE StripLeft(_)
StripLeft(s) ==
    IF Len(s) > 0 /\ SubSeq(s, 1, 1) = " " THEN StripLeft(SubSeq(s, 2, Len(s))) ELSE s

RECURSIVE StripRight(_)
StripRight(s) ==
    IF Len(s) > 0 /\ SubSeq(s, Len(s), Len(s)) = " "
    THEN StripRight(SubSeq(s, 1, Len(s) - 1))
    ELSE s

\* Python: s.strip(), on strings whose only whitespace is the space
Strip(s) == StripRight(StripLeft(s))

\* the reply text if the processing notice stood for every message with tool calls
assistant_response_always_processing(message) ==
    IF message.tool_calls # <<>> THEN ProcessingNotice
    ELSE IF message.content = None THEN "" ELSE message.content[1]

\* lines 240-261: the reply text of /chat for the message the model returned
assistant_response(message) ==
    IF message.tool_calls # <<>>
    THEN IF json_loads_args(message.tool_calls[1].function.arguments).ok
         THEN ProcessingNotice
         ELSE ParseErrorNotice
    ELSE IF message.content = None THEN "" ELSE message.content[1]

\* lines 240-243
tool_call_detected(message) == message.tool_calls # <<>>

\* the message /chat would append if it forgot the model's tool calls
assistant_message_without_calls(message) ==
    Msg("assistant", Some(assistant_response(message)), <<>>, "")

\* lines 263-283: the message /chat appends
assistant_message(message) ==
    Msg("assistant", Some(assistant_response(message)), message.tool_calls, "")

\* the transcript /chat would work on if it appended the user's message to it
conversation_history_with_message(data) ==
    Append(data.conversation_history, Msg("user", Some(Strip(data.message)), <<>>, ""))

\* lines 113-116: the transcript /chat works on is the one of the request body;
\* user_message (line 112) is read for the emptiness check alone
conversation_history_of(data) == data.conversation_history

\* data: the request body (present, message, conversation_history); env: the clock
\* (now), the model's answer (completion: ok, content, tool_calls) and the
\* summary generator's environment
chat(data, env) ==
    IF ~data.present THEN ErrorOutcome(400, "Missing JSON body", <<>>, 0, 0)
    ELSE IF Strip(data.message) = ""
    THEN ErrorOutcome(400, "No 'message' provided", <<>>, 0, 0)
    ELSE
        LET context == SystemContextStep(conversation_history_of(data), env.now)
            message == env.completion
            h == Append(context.history, assistant_message(message))
            block == SummaryBlock(h, env)
        IN  IF context.raised
            THEN ErrorOutcome(500, "argument of type 'NoneType' is not iterable", <<>>, 0, 0)
            ELSE IF ~message.ok THEN ErrorOutcome(500, "Connection error.", <<>>, 1, 0)
            ELSE IF block.raised
            THEN ErrorOutcome(500, "'NoneType' object has no attribute 'lower'", <<>>, 1, 0)
            ELSE Outcome(200, None, Some(assistant_response(message)), Some(h),
                         tool_call_detected(message), block.summary, block.run,
                         <<>>, 1, 0)

(***************************************************************************)
(* POST /tool-call-result (all_routes.py 318-520).                         *)
(***************************************************************************)
\* the index of the last assistant message, with tool calls or without, 0 if none
FindLastAssistantMessage(h) ==
    LET found == {i \in DOMAIN h : h[i].role = "assistant"}
    IN  IF found = {} THEN 0 ELSE CHOOSE i \in found : \A j \in found : j <= i

\* lines 336-341: the index of the last assistant message with tool calls, 0 if none
FindToolCallMessage(h) ==
    LET found == {i \in DOMAIN h : h[i].role = "assistant" /\ h[i].tool_calls # <<>>}
    IN  IF found = {} THEN 0 ELSE CHOOSE i \in found : \A j \in found : j <= i

\* what executing one tool call can meet in its environment
ToolOutcomes(call) ==
    IF ~json_loads_args(call.function.arguments).ok THEN {"none"}
    ELSE IF call.function.name = "fetch_cars" THEN {"ok", "raise"}
    ELSE IF call.function.name = "find_car_review_videos" THEN VideoOutcomes
    ELSE {"none"}

\* one turn of the loop if an unregistered tool were skipped without a word
CallStepSkippingUnknown(call, outcome) ==
    LET parsed == json_loads_args(call.function.arguments)
    IN  IF ~parsed.ok
        THEN [kind |-> "bad_args", content |-> "", invoked |-> FALSE, searches |-> 0]
        ELSE IF call.function.name = "fetch_cars"
        THEN IF outcome = "raise"
             THEN [kind |-> "raise", content |-> "", invoked |-> TRUE, searches |-> 0]
             ELSE [kind |-> "ok", content |-> DumpCars(fetch_cars(parsed.value)),
                   invoked |-> TRUE, searches |-> 0]
        ELSE [kind |-> "ok", content |-> "null", invoked |-> FALSE, searches |-> 0]

\* lines 445-467, one turn of the loop: kind is "ok" (content is json.dumps(result)),
\* "bad_args" and "unknown" (return 400), or "raise" (the inventory query failed);
\* invoked: the tool's function was called
CallStep(call, outcome) ==
    LET func_name == call.function.name
        parsed == json_loads_args(call.function.arguments)
        func_args == parsed.value
    IN  IF ~parsed.ok
        THEN [kind |-> "bad_args", content |-> "", invoked |-> FALSE, searches |-> 0]
        ELSE IF func_name = "fetch_cars"
        THEN IF outcome = "raise"
             THEN [kind |-> "raise", content |-> "", invoked |-> TRUE, searches |-> 0]
             ELSE [kind |-> "ok", content |-> DumpCars(fetch_cars(func_args)),
                   invoked |-> TRUE, searches |-> 0]
        ELSE IF func_name = "find_car_review_videos"
        THEN [kind |-> "ok",
              content |-> DumpVideos(ArgText(func_args, "car_make"),
                                     ArgText(func_args, "car_model"), outcome),
              invoked |-> TRUE, searches |-> VideoSearches(outcome)]
        ELSE [kind |-> "unknown", content |-> "", invoked |-> FALSE, searches |-> 0]

\* the tool message if it did not name the call it answers
tool_response_message_unkeyed(tool_call_id, content) == Msg("tool", Some(content), <<>>, "")

\* lines 469-475
tool_response_message(tool_call_id, content) == Msg("tool", Some(content), <<>>, tool_call_id)

RECURSIVE SumTo(_, _)
SumTo(f, n) == IF n = 0 THEN 0 ELSE f[n] + SumTo(f, n - 1)

\* lines 443-475, the loop over tool_call_message["tool_calls"]: it stops at the
\* first call that does not end "ok"
ProcessToolCalls(calls, outcomes) ==
    LET steps == [i \in DOMAIN calls |-> CallStep(calls[i], outcomes[i])]
        stops == {i \in DOMAIN calls : steps[i].kind # "ok"}
        stop == IF stops = {} THEN Len(calls) + 1 ELSE Min(stops)
        ran == {i \in DOMAIN calls : i <= stop /\ steps[i].invoked}
    IN  [end |-> IF stops = {} THEN "ok" ELSE steps[stop].kind,
         unknown |-> IF stop <= Len(calls) THEN calls[stop].function.name ELSE "",
         messages |-> [i \in 1..(stop - 1) |->
                          tool_response_message(calls[i].id, steps[i].content)],
         executed |-> [i \in 1..Cardinality(ran) |-> calls[i].id],
         searches |-> SumTo([i \in DOMAIN calls |->
                                IF i \in ran THEN steps[i].searches ELSE 0], Len(calls))]

\* the end of /tool-call-result if a failed completion sent back the transcript
\* with the tool results appended
FinishEchoingTranscript(h, env, executed, searches) ==
    LET message == env.completion
        final_response == IF message.content = None THEN "" ELSE message.content[1]
        final == Append(h, Msg("assistant", Some(final_response), <<>>, ""))
        block == SummaryBlock(final, env)
    IN  IF ~message.ok
        THEN Outcome(500, Some("Connection error."), None, Some(h), FALSE, None,
                     NoSummaryRun, executed, 1, searches)
        ELSE IF block.raised
        THEN ErrorOutcome(500, "'NoneType' object has no attribute 'lower'",
                          executed, 1, searches)
        ELSE Outcome(200, None, Some(final_response), Some(final), FALSE,
                     block.summary, block.run, executed, 1, searches)

\* lines 477-515: the final completion (no tools offered), the appended reply, the
\* end-of-conversation block and the response
FinishToolCallResult(h, env, executed, searches) ==
    LET message == env.completion
        final_response == IF message.content = None THEN "" ELSE message.content[1]
        final == Append(h, Msg("assistant", Some(final_response), <<>>, ""))
        block == SummaryBlock(final, env)
    IN  IF ~message.ok THEN ErrorOutcome(500, "Connection error.", executed, 1, searches)
        ELSE IF block.raised
        THEN ErrorOutcome(500, "'NoneType' object has no attribute 'lower'",
                          executed, 1, searches)
        ELSE Outcome(200, None, Some(final_response), Some(final), FALSE,
                     block.summary, block.run, executed, 1, searches)

FallbackToolCallId == "fallback_tool_call"

review_keywords == {"review", "reviews", "video", "videos", "watch", "see", "look at"}

FallbackFilter ==
    [make |-> "Nissan", model |-> "", year |-> Unset, max_year |-> Unset,
     price |-> Unset, max_price |-> Unset, mileage |-> Unset, color |-> "",
     stock_number |-> "", vin |-> ""]

\* what the default call of the fallback branch meets: the environment's first
\* outcome, an answering service when the environment names none
FallbackOutcome(env) == IF Len(env.tools) > 0 THEN env.tools[1] ELSE "ok"

\* lines 346-441: the branch taken when the message found has no tool calls
FallbackToolCallResult(h, tool_call_message, env) ==
    IF tool_call_message.content # Some(ProcessingNotice)
    THEN ErrorOutcome(400, "No tool call found in conversation history", <<>>, 0, 0)
    ELSE IF \E keyword \in review_keywords :
                Contains(Lower(tool_call_message.content[1]), keyword)
    THEN FinishToolCallResult(
             Append(h, tool_response_message(FallbackToolCallId,
                                             DumpVideos("Nissan", "Kicks", FallbackOutcome(env)))),
             env, <<FallbackToolCallId>>, VideoSearches(FallbackOutcome(env)))
    ELSE IF FallbackOutcome(env) = "raise"
    THEN ErrorOutcome(500, "inventory query failed", <<FallbackToolCallId>>, 0, 0)
    ELSE FinishToolCallResult(
             Append(h, tool_response_message(FallbackToolCallId,
                                             DumpCars(fetch_cars(FallbackFilter)))),
             env, <<FallbackToolCallId>>, 0)

\* data: the request body (present, conversation_history); env: what each tool call
\* meets (tools), the model's final answer (completion) and the summary
\* generator's environment
tool_call_result(data, env) ==
    IF ~data.present THEN ErrorOutcome(400, "Missing JSON body", <<>>, 0, 0)
    ELSE
        LET conversation_history == data.conversation_history
            at == FindToolCallMessage(conversation_history)
            tool_call_message == conversation_history[at]
            done == ProcessToolCalls(tool_call_message.tool_calls, env.tools)
        IN  IF at = 0
            THEN ErrorOutcome(400, "No assistant message found in conversation history",
                              <<>>, 0, 0)
            ELSE IF tool_call_message.tool_calls = <<>>
            THEN FallbackToolCallResult(conversation_history, tool_call_message, env)
            ELSE IF done.end = "bad_args"
            THEN ErrorOutcome(400, "Error parsing tool arguments", done.executed, 0,
                              done.searches)
            ELSE IF done.end = "unknown"
            THEN ErrorOutcome(400, "Unknown tool '" \o done.unknown \o "' called",
                              done.executed, 0, done.searches)
            ELSE IF done.end = "raise"
            THEN ErrorOutcome(500, "inventory query failed", done.executed, 0,
                              done.searches)
            ELSE FinishToolCallResult(conversation_history \o done.messages, env,
                                      done.executed, done.searches)

(***************************************************************************)
(* POST /generate-summary (all_routes.py 522-551) and                      *)
(* GET /get-summary/<conversation_id> (all_routes.py 553-572).             *)
(***************************************************************************)
\* data: the request body (present, conversation_history, conversation_id)
generate_summary(data, env) ==
    IF ~data.present THEN ErrorOutcome(400, "Missing JSON body", <<>>, 0, 0)
    ELSE
        LET gen == generate_conversation_summary(data.conversation_history,
                                                 data.conversation_id, env)
        IN  Outcome(200, None, None, None, FALSE, Some(gen.summary),
                    [analytics |-> gen.analytics, rows |-> gen.rows, calls |-> 1],
                    <<>>, 0, 0)

get_summary(conversation_id, rows, query_ok) ==
    LET summary == get_conversation_summary(conversation_id, rows, query_ok)
    IN  IF summary # None
        THEN Outcome(200, None, None, None, FALSE, summary, NoSummaryRun, <<>>, 0, 0)
        ELSE ErrorOutcome(404, "Summary not found", <<>>, 0, 0)

(***************************************************************************)
(* The environment of a request.                                           *)
(***************************************************************************)
\* uuid.uuid4()
Uuids == {"7d9f2c1e"}

SummaryEnvs ==
    [summary_reply : SummaryReplies, uuid : Uuids, analytics_ok : BOOLEAN,
     db_ok : BOOLEAN]

\* the environment of a request that does not reach the summary generator
QuietSummaryEnv ==
    [summary_reply |-> [ok |-> FALSE, content |-> ""], uuid |-> "7d9f2c1e",
     analytics_ok |-> TRUE, db_ok |-> TRUE]

\* the tool calls the model may ask for: a registered tool with its arguments, a
\* name that is not registered, and an argument payload that is not JSON
CallKinds ==
    {[name |-> "fetch_cars", arguments |-> ArgsFetch],
     [name |-> "find_car_review_videos", arguments |-> ArgsVideo],
     [name |-> "nonexistent_tool", arguments |-> ArgsFetch],
     [name |-> "fetch_cars", arguments |-> ArgsMalformed]}

\* the model API gives every tool call an id of its own; turn is the length of
\* the transcript of the request, which grows from request to request
CallId(turn, i) == "call_" \o ToString(turn) \o "_" \o ToString(i)

ModelToolCalls(turn) ==
    UNION {{[i \in 1..n |-> ToolCall(CallId(turn, i), kinds[i].name, kinds[i].arguments)] :
               kinds \in [1..n -> CallKinds]} : n \in 1..MaxCalls}

ReplyContents == {None, Some(PlainReply), Some(ClosingMessage)}

ModelFailure == [ok |-> FALSE, content |-> None, tool_calls |-> <<>>]

\* what client.chat.completions.create(messages, tools=tools) can do
ChatCompletions(turn) ==
    {ModelFailure}
    \cup {[ok |-> TRUE, content |-> c, tool_calls |-> <<>>] : c \in ReplyContents}
    \cup {[ok |-> TRUE, content |-> None, tool_calls |-> calls] :
            calls \in ModelToolCalls(turn)}

\* what client.chat.completions.create(messages) can do when no tools are offered
FinalCompletions ==
    {ModelFailure}
    \cup {[ok |-> TRUE, content |-> c, tool_calls |-> <<>>] : c \in ReplyContents}

AllToolOutcomes == {"none", "ok", "raise"} \cup VideoOutcomes

ToolEnvs(calls) ==
    {outcomes \in [DOMAIN calls -> AllToolOutcomes] :
        \A i \in DOMAIN calls : outcomes[i] \in ToolOutcomes(calls[i])}

PendingCalls(h) ==
    IF FindToolCallMessage(h) = 0 THEN <<>> ELSE h[FindToolCallMessage(h)].tool_calls

(***************************************************************************)
(* The client: it holds the transcript, resends it with every request and  *)
(* replaces it by the transcript a 200 response returns.                   *)
(***************************************************************************)
ForgedCall == ToolCall("call_0_1", "fetch_cars", ArgsFetch)

\* the messages a client may put into the transcript it starts with
ClientMessages ==
    {Msg("user", Some("hi"), <<>>, ""),
     Msg("system", None, <<>>, ""),
     system_message,
     time_context_message("2025-02-28 09:00:00 EST"),
     Msg("system", Some(ConvIdContent), <<>>, ""),
     Msg("assistant", None, <<>>, ""),
     Msg("assistant", Some(ProcessingNotice), <<>>, ""),
     Msg("assistant", Some(ProcessingNotice), <<ForgedCall>>, "")}

InitialTranscripts == UNION {[1..n -> ClientMessages] : n \in 0..MaxInit}

\* the "message" field of a /chat request
ChatMessages == {"", "  ", "hi"}

VARIABLES
    history,      \* the transcript the client holds
    request,      \* the last request: route, body (present, message,
                  \* conversation_history), and what the services it called did
    response,     \* the last response: status and body
    effects,      \* what the last request did besides answering
    summaries,    \* the auto_lead_interaction_details table
    analytics,    \* the analytics_data table
    dispatched,   \* the ids of all tool calls executed, in order
    steps,        \* the size of the scenario so far
    helper        \* a helper called on its own: function, argument, result

vars ==
    <<history, request, response, effects, summaries, analytics, dispatched, steps,
      helper>>

ResponseOf(out) ==
    [status |-> out.status, error |-> out.error, reply |-> out.reply,
     history |-> out.history, tool_call_detected |-> out.tool_call_detected,
     summary |-> out.summary]

EffectsOf(out) ==
    [executed |-> out.executed, completions |-> out.completions,
     summary_calls |-> out.summary_calls, video_searches |-> out.video_searches,
     analytics |-> out.analytics, rows |-> out.rows]

\* what the services did for a request: whether the route's completion call was
\* made and failed, the tool calls its answer carried, what each tool call met,
\* what the model API answered to the summary generator
Upstream(out, completion, tools, senv) ==
    [model_failed |-> out.completions > 0 /\ ~completion.ok,
     content |-> completion.content,
     tool_calls |-> completion.tool_calls, tools |-> tools,
     summary_reply |-> senv.summary_reply]

\* no request has been made yet and the store is empty
ServerAtRest ==
    /\ request = [route |-> "", present |-> FALSE, message |-> "",
                  conversation_history |-> <<>>,
                  upstream |-> [model_failed |-> FALSE, content |-> None,
                                tool_calls |-> <<>>,
                                tools |-> <<>>,
                                summary_reply |-> QuietSummaryEnv.summary_reply]]
    /\ response = [status |-> 0, error |-> None, reply |-> None, history |-> None,
                   tool_call_detected |-> FALSE, summary |-> None]
    /\ effects = [executed |-> <<>>, completions |-> 0, summary_calls |-> 0,
                  video_searches |-> 0, analytics |-> <<>>, rows |-> <<>>]
    /\ summaries = <<>>
    /\ analytics = <<>>
    /\ dispatched = <<>>

\* no helper has been called on its own
NoCall == [function |-> "", argument |-> <<>>, result |-> <<>>]

Init ==
    /\ history \in InitialTranscripts
    /\ ServerAtRest
    /\ steps = Len(history)
    /\ helper = NoCall

\* the server answers; the client keeps the transcript of a 200 response that has one
Serve(route, data, out, cost, completion, tools, senv) ==
    /\ steps' = steps + cost
    /\ request' = [route |-> route, present |-> data.present, message |-> data.message,
                   conversation_history |->
                       IF data.present THEN data.conversation_history ELSE <<>>,
                   upstream |-> Upstream(out, completion, tools, senv)]
    /\ response' = ResponseOf(out)
    /\ effects' = EffectsOf(out)
    /\ history' = IF out.status = 200 /\ out.history # None THEN out.history[1] ELSE history
    /\ summaries' = summaries \o out.rows
    /\ analytics' = analytics \o out.analytics
    /\ dispatched' = dispatched \o out.executed
    /\ UNCHANGED helper

\* the bodies of a /chat request: none, or one with a "message" field
ChatBodies == {[present |-> FALSE, message |-> ""]} \cup [present : {TRUE}, message : ChatMessages]

\* the size a model answer adds to the scenario
Cost(completion) ==
    IF Len(completion.tool_calls) > 1 THEN Len(completion.tool_calls) ELSE 1

Chat ==
    /\ steps < MaxSteps
    /\ \E body \in ChatBodies, now \in Times :
        LET data == body @@ [conversation_history |-> history]
            rejected == chat(data, [now |-> now, completion |-> ModelFailure] @@ QuietSummaryEnv)
        IN  \E completion \in IF rejected.completions = 0 THEN {ModelFailure}
                              ELSE {c \in ChatCompletions(Len(history)) :
                                       steps + Cost(c) <= MaxSteps} :
                LET quiet == chat(data, [now |-> now, completion |-> completion]
                                        @@ QuietSummaryEnv)
                IN  \E senv \in IF quiet.summary = None THEN {QuietSummaryEnv}
                                ELSE SummaryEnvs :
                        Serve("/chat", data,
                              IF senv = QuietSummaryEnv THEN quiet
                              ELSE chat(data, [now |-> now, completion |-> completion]
                                              @@ senv),
                              Cost(completion), completion, <<>>, senv)

ToolCallResult ==
    /\ steps < MaxSteps
    /\ \E present \in BOOLEAN, tools \in ToolEnvs(PendingCalls(history)) :
        LET data == [present |-> present, message |-> "",
                     conversation_history |-> history]
            rejected == tool_call_result(
                            data, [tools |-> tools, completion |-> ModelFailure]
                                  @@ QuietSummaryEnv)
        IN  \E completion \in IF rejected.completions = 0 THEN {ModelFailure}
                              ELSE FinalCompletions :
                LET quiet == tool_call_result(
                                 data, [tools |-> tools, completion |-> completion]
                                       @@ QuietSummaryEnv)
                IN  \E senv \in IF quiet.summary = None THEN {QuietSummaryEnv}
                                ELSE SummaryEnvs :
                        Serve("/tool-call-result", data,
                              IF senv = QuietSummaryEnv THEN quiet
                              ELSE tool_call_result(
                                       data, [tools |-> tools, completion |-> completion]
                                             @@ senv),
                              1, completion, tools, senv)

\* the client adds the user's text to its transcript
ClientSay ==
    /\ steps < MaxSteps
    /\ history' = Append(history, Msg("user", Some("hi"), <<>>, ""))
    /\ steps' = steps + 1
    /\ UNCHANGED <<request, response, effects, summaries, analytics, dispatched,
                   helper>>

Next == Chat \/ ToolCallResult \/ ClientSay

Spec == Init /\ [][Next]_vars

(***************************************************************************)
(* detect_end_of_conversation called on its own, on every transcript of a  *)
(* bounded length over a few messages.                                     *)
(***************************************************************************)
\* longest transcript handed to the detector
MaxTranscript == 6

\* a closing and a plain assistant message, an assistant message that carries a
\* tool call and no content, and messages of other roles that hold an end phrase
DetectorMessages ==
    {Msg("assistant", Some(ClosingMessage), <<>>, ""),
     Msg("assistant", Some(PlainReply), <<>>, ""),
     Msg("assistant", None, <<ForgedCall>>, ""),
     Msg("user", Some("goodbye"), <<>>, ""),
     Msg("tool", Some("have a great day"), <<>>, "call_0_1")}

DetectorTranscripts == UNION {[1..n -> DetectorMessages] : n \in 0..MaxTranscript}

DetectInit ==
    /\ history = <<>>
    /\ ServerAtRest
    /\ steps = 0
    /\ helper \in {[function |-> "detect_end_of_conversation", argument |-> h,
                   result |-> None] : h \in DetectorTranscripts}

DetectEnd ==
    /\ helper.function = "detect_end_of_conversation"
    /\ helper.result = None
    /\ helper' = [helper EXCEPT !.result = Some(detect_end_of_conversation(helper.argument))]
    /\ UNCHANGED <<history, request, response, effects, summaries, analytics,
                   dispatched, steps>>

DetectSpec == DetectInit /\ [][DetectEnd]_vars

(***************************************************************************)
(* fetch_cars called on its own, on filters that set a few of the ten      *)
(* keys.                                                                   *)
(***************************************************************************)
\* most string keys, and most numeric keys, of a filter
MaxFilters == 2

StrKeys == {"make", "model", "color", "stock_number", "vin"}

NumKeys == {"year", "max_year", "price", "max_price", "mileage"}

\* the values a key may hold: the empty string and -1 (no filter), values in
\* another case than the stored one, parts of stored values, values the pattern
\* language of ILIKE gives a meaning to, and bounds that some car meets exactly
StrValues ==
    [make |-> {"", "NISS", "n_ssan"},
     model |-> {"", "kicks"},
     color |-> {"", "RED", "%"},
     stock_number |-> {"", "ABC123", "abc123"},
     vin |-> {"", "VIN2"}]

NumValues ==
    [year |-> {Unset, 2023},
     max_year |-> {Unset, 2023},
     price |-> {Unset, 22000},
     max_price |-> {Unset, 22000},
     mileage |-> {Unset, 20000}]

\* the dicts that hold at most MaxFilters of the keys, each with one of its values
FiltersOver(keys, values) ==
    UNION {{f \in [K -> UNION {values[k] : k \in K}] : \A k \in K : f[k] \in values[k]} :
             K \in {K \in SUBSET keys : Cardinality(K) <= MaxFilters}}

FilterParams ==
    {s @@ n : s \in FiltersOver(StrKeys, StrValues), n \in FiltersOver(NumKeys, NumValues)}

InventoryInit ==
    /\ history = <<>>
    /\ ServerAtRest
    /\ steps = 0
    /\ helper \in {[function |-> "fetch_cars", argument |-> fp, result |-> None] :
                     fp \in FilterParams}

FetchCars ==
    /\ helper.function = "fetch_cars"
    /\ helper.result = None
    /\ helper' = [helper EXCEPT !.result = Some(fetch_cars(helper.argument))]
    /\ UNCHANGED <<history, request, response, effects, summaries, analytics,
                   dispatched, steps>>

InventorySpec == InventoryInit /\ [][FetchCars]_vars

(***************************************************************************)
(* The summary store: conversations are summarised through                 *)
(* /generate-summary and looked up through /get-summary.                   *)
(***************************************************************************)
\* most requests of a scenario on the summary store
MaxRequests == 3

ConversationIds == {"conv-A", "conv-B"}

\* a conversation that has ended
EndedTranscript ==
    <<Msg("user", Some("hi"), <<>>, ""),
      Msg("assistant", Some(ClosingMessage), <<>>, "")>>

\* what the summary generator meets: a failing or an answering model API, a
\* failing or a succeeding commit
StoreEnvs ==
    [summary_reply : {[ok |-> FALSE, content |-> ""],
                      [ok |-> TRUE, content |-> SummaryJsonFull],
                      [ok |-> TRUE, content |-> SummaryJsonOther]},
     uuid : Uuids, analytics_ok : {TRUE}, db_ok : BOOLEAN]

StoreInit ==
    /\ history = <<>>
    /\ ServerAtRest
    /\ steps = 0
    /\ helper = NoCall

GenerateSummary ==
    /\ steps < MaxRequests
    /\ \E conversation_id \in ConversationIds, env \in StoreEnvs :
        LET data == [present |-> TRUE, conversation_history |-> EndedTranscript,
                     conversation_id |-> Some(conversation_id)]
            out == generate_summary(data, env)
        IN  /\ request' = [route |-> "/generate-summary",
                           conversation_id |-> conversation_id,
                           upstream |-> [summary_reply |-> env.summary_reply,
                                         db_ok |-> env.db_ok]]
            /\ response' = ResponseOf(out)
            /\ effects' = EffectsOf(out)
            /\ summaries' = summaries \o out.rows
            /\ analytics' = analytics \o out.analytics
            /\ steps' = steps + 1
            /\ UNCHANGED <<history, dispatched, helper>>

GetSummary ==
    /\ steps < MaxRequests
    /\ \E conversation_id \in ConversationIds, query_ok \in BOOLEAN :
        LET out == get_summary(conversation_id, summaries, query_ok)
        IN  /\ request' = [route |-> "/get-summary",
                           conversation_id |-> conversation_id,
                           upstream |-> [query_ok |-> query_ok]]
            /\ response' = ResponseOf(out)
            /\ effects' = EffectsOf(out)
            /\ steps' = steps + 1
            /\ UNCHANGED <<history, summaries, analytics, dispatched, helper>>

StoreNext == GenerateSummary \/ GetSummary

StoreSpec == StoreInit /\ [][StoreNext]_vars

(***************************************************************************)
(* Properties.                                                             *)
(***************************************************************************)
Last(h) == h[Len(h)]

ChatAnswered == request.route = "/chat" /\ response.status = 200

ToolResultAnswered == request.route = "/tool-call-result" /\ response.status = 200

\* system messages holding the persona marker, and holding the time marker
PersonaMessages(h) ==
    {i \in DOMAIN h : /\ h[i].role = "system"
                      /\ h[i].content # None
                      /\ Contains(h[i].content[1], "You are Patricia")}

TimeMessages(h) ==
    {i \in DOMAIN h : /\ h[i].role = "system"
                      /\ h[i].content # None
                      /\ Contains(h[i].content[1], "Current time:")}

\* C1: every /chat response with tool_call_detected = true returns a transcript
\* whose last message is an assistant message with a non-empty tool_calls list.
C1_PendingCallsReturned ==
    (ChatAnswered /\ response.tool_call_detected)
        => /\ response.history # None
           /\ Last(response.history[1]).role = "assistant"
           /\ Last(response.history[1]).tool_calls # <<>>

C1_Witness ==
    /\ ChatAnswered
    /\ response.tool_call_detected
    /\ Len(Last(response.history[1]).tool_calls) = 2

\* C3: the system-context step is idempotent (applied to its own result it
\* inserts nothing), and no request gives a transcript a second persona message
\* or a second time-context message.
NoDuplicateContext(h) ==
    Cardinality(PersonaMessages(h)) <= 1 /\ Cardinality(TimeMessages(h)) <= 1

ContextStepIdempotent ==
    request.route = "/chat"
        => \A now \in Times, later \in Times :
              LET once == SystemContextStep(request.conversation_history, now)
                  twice == SystemContextStep(once.history, later)
              IN  ~once.raised => (~twice.raised /\ twice.history = once.history)

C3_ContextInsertedOnce ==
    /\ []ContextStepIdempotent
    /\ [][NoDuplicateContext(history) => NoDuplicateContext(history')]_vars

\* a /chat request answered on a transcript that an earlier /chat returned
C3_Witness ==
    /\ ChatAnswered
    /\ PersonaMessages(request.conversation_history) = {1}
    /\ Cardinality(TimeMessages(request.conversation_history)) = 1
    /\ Last(request.conversation_history).role = "assistant"
    /\ PersonaMessages(response.history[1]) = {1}
    /\ Cardinality(TimeMessages(response.history[1])) = 1

\* C4 as stated: after the system-context step of /chat, for every input
\* transcript, the first message is the persona prompt and exactly one
\* time-context system message is present.
C4_PersonaFirstOneTime ==
    ChatAnswered
        => /\ response.history[1][1] = system_message
           /\ Cardinality(TimeMessages(response.history[1])) = 1

\* C4 amended: after the step the transcript holds a system message with the
\* persona marker and a time-context message; the persona prompt is the first
\* message when the input held no system message with the persona marker, and
\* exactly one time-context message is present when the input held at most one.
C4_ContextPresent ==
    ChatAnswered
        => LET before == request.conversation_history
               after == response.history[1]
           IN  /\ PersonaMessages(after) # {}
               /\ TimeMessages(after) # {}
               /\ PersonaMessages(before) = {} => after[1] = system_message
               /\ Cardinality(TimeMessages(before)) <= 1
                      => Cardinality(TimeMessages(after)) = 1

\* the persona prompt and the time context were both inserted by the request
C4_Witness ==
    /\ ChatAnswered
    /\ request.conversation_history # <<>>
    /\ PersonaMessages(request.conversation_history) = {}
    /\ TimeMessages(request.conversation_history) = {}
    /\ response.history[1][1] = system_message

\* the last assistant message with tool calls is the last message of h
EndsWithPending(h) ==
    h # <<>> /\ Last(h).role = "assistant" /\ Last(h).tool_calls # <<>>

RegisteredTools == {"fetch_cars", "find_car_review_videos"}

\* a tool call /tool-call-result cannot execute
BadCall(call) ==
    \/ call.function.name \notin RegisteredTools
    \/ ~json_loads_args(call.function.arguments).ok

\* C2: submitting the transcript of a /chat response with tool_call_detected = true
\* to /tool-call-result, the model API and the store answering, succeeds with
\* status 200 and a final_response that is not the placeholder.
C2_RoundTripSucceeds ==
    [][(/\ ChatAnswered
        /\ response.tool_call_detected
        /\ request'.route = "/tool-call-result"
        /\ request'.present
        /\ request'.conversation_history = response.history[1]
        /\ ~request'.upstream.model_failed
        /\ \A i \in DOMAIN request'.upstream.tools :
              request'.upstream.tools[i] # "raise")
       => /\ response'.status = 200
          /\ response'.reply # None
          /\ response'.reply # Some(ProcessingNotice)]_vars

\* C5: /tool-call-result does not execute a tool call whose tool-result message
\* the submitted transcript already holds.
C5_AnsweredCallsNotExecuted ==
    request.route = "/tool-call-result"
        => \A k \in DOMAIN effects.executed :
              \A i \in DOMAIN request.conversation_history :
                 ~(/\ request.conversation_history[i].role = "tool"
                   /\ request.conversation_history[i].tool_call_id = effects.executed[k])

\* C6: /tool-call-result answers 400, executes no tool and requests no completion
\* whenever the submitted transcript does not end with an assistant message
\* carrying tool calls.
C6_RejectedUnlessPendingLast ==
    (request.route = "/tool-call-result" /\ ~EndsWithPending(request.conversation_history))
        => /\ response.status = 400
           /\ effects.executed = <<>>
           /\ effects.completions = 0

\* the first pending tool call of the request that cannot be executed
FirstBadCall(calls) == Min({i \in DOMAIN calls : BadCall(calls[i])})

\* C7 as stated: a pending tool call with an unregistered name or an unparseable
\* argument payload ends the request with a 400 response, no final completion
\* and no transcript.
C7_BadCallIs400 ==
    (/\ request.route = "/tool-call-result"
     /\ \E i \in DOMAIN PendingCalls(request.conversation_history) :
           BadCall(PendingCalls(request.conversation_history)[i]))
        => /\ response.status = 400
           /\ effects.completions = 0
           /\ response.history = None

\* C7 amended: such a call is never skipped: the request ends with a 400 response,
\* or with a 500 response when a tool call before it in the same message fails
\* while it executes; in both cases no final completion is requested and no
\* transcript is returned.
C7_BadCallRejected ==
    (/\ request.route = "/tool-call-result"
     /\ \E i \in DOMAIN PendingCalls(request.conversation_history) :
           BadCall(PendingCalls(request.conversation_history)[i]))
        => LET calls == PendingCalls(request.conversation_history)
               failed_before ==
                   \E i \in 1..(FirstBadCall(calls) - 1) :
                      request.upstream.tools[i] = "raise"
           IN  /\ response.status = IF failed_before THEN 500 ELSE 400
               /\ effects.completions = 0
               /\ response.history = None
               /\ response.reply = None

\* a registered tool was executed, then the unregistered one ended the request
C7_Witness ==
    /\ request.route = "/tool-call-result"
    /\ Len(PendingCalls(request.conversation_history)) = 2
    /\ PendingCalls(request.conversation_history)[2].function.name = "nonexistent_tool"
    /\ Len(effects.executed) = 1
    /\ response.status = 400

\* C8: when the completion call of /chat or /tool-call-result fails, the answer is
\* a 500 error without a transcript, and the call was made once.
C8_ModelFailureIs500 ==
    (request.route \in {"/chat", "/tool-call-result"} /\ request.upstream.model_failed)
        => /\ response.status = 500
           /\ response.error # None
           /\ response.history = None
           /\ response.reply = None
           /\ response.summary = None
           /\ effects.completions = 1
           /\ effects.summary_calls = 0

\* the completion failed after tool results had been appended
C8_Witness ==
    /\ request.route = "/tool-call-result"
    /\ request.upstream.model_failed
    /\ Len(effects.executed) = 2

\* the summary generator ran and its model call raised or returned no JSON
SummaryCallFailed ==
    /\ effects.summary_calls = 1
    /\ \/ ~request.upstream.summary_reply.ok
       \/ request.upstream.summary_reply.content = SummaryNotJson

\* C9: when the model call of the summary generator fails, the generator does not
\* raise and returns the default summary (neutral, ["error"], Sales, the error
\* text in the notes), and nothing is persisted.
C9_FailedSummaryIsDefault ==
    SummaryCallFailed
        => /\ response.status = 200
           /\ response.summary # None
           /\ response.summary[1].sentiment = "neutral"
           /\ response.summary[1].keywords = <<"error">>
           /\ response.summary[1].department = "Sales"
           /\ SubSeq(response.summary[1].insights.additional_notes, 1, 7) = "Error: "
           /\ Len(response.summary[1].insights.additional_notes) > 7
           /\ effects.rows = <<>>
           /\ effects.analytics = <<>>

C9_Witness ==
    /\ SummaryCallFailed
    /\ request.upstream.summary_reply.content = SummaryNotJson
    /\ request.route = "/tool-call-result"

\* C10: the summary handed to the routes is always well-formed: it holds
\* sentiment, keywords, summary, department and insights, the default summary
\* standing in on any failure, a schema mismatch included.
C10_SummaryWellFormed ==
    response.summary # None
        => {"sentiment", "keywords", "summary", "department", "insights"}
              \subseteq DOMAIN response.summary[1]

\* the detector has returned for the transcript it was called on
Detected == helper.function = "detect_end_of_conversation" /\ helper.result # None

\* the assistant messages of h
AssistantMessages(h) == {i \in DOMAIN h : h[i].role = "assistant"}

\* the last assistant message of h is exactly the closing message
LastAssistantIsClosing(h) ==
    /\ AssistantMessages(h) # {}
    /\ LET last == CHOOSE i \in AssistantMessages(h) : \A j \in AssistantMessages(h) : j <= i
       IN  h[last].content = Some(ClosingMessage)

\* C12 as stated: the detector returns true for every transcript whose last
\* assistant message is exactly the closing message.
C12_ClosingDetected ==
    (Detected /\ LastAssistantIsClosing(helper.argument)) => helper.result = Some("true")

\* C12 amended: the detector returns true for every transcript of at least 3
\* messages whose last assistant message is exactly the closing message and is
\* one of the last 5 messages.
C12_ClosingDetectedInWindow ==
    (/\ Detected
     /\ LastAssistantIsClosing(helper.argument)
     /\ Len(helper.argument) >= 3
     /\ \E i \in AssistantMessages(helper.argument) : i > Len(helper.argument) - 5)
        => helper.result = Some("true")

\* the closing message is the oldest message of the window, after an assistant
\* message without content and before messages of the user
C12_Witness ==
    /\ Detected
    /\ Len(helper.argument) = 6
    /\ helper.argument[1] = Msg("assistant", None, <<ForgedCall>>, "")
    /\ helper.argument[2] = Msg("assistant", Some(ClosingMessage), <<>>, "")
    /\ \A i \in 3..6 : helper.argument[i].role = "user"
    /\ helper.result = Some("true")

\* the contents of all messages of h are strings
StringContents(h) == \A i \in DOMAIN h : h[i].content # None

\* some end phrase is a substring of the text, case ignored
HoldsEndPhrase(text) ==
    \E phrase \in end_phrases :
       \E i \in 1..Len(text) :
          /\ i + Len(phrase) - 1 <= Len(text)
          /\ \A k \in 1..Len(phrase) :
                LowerChar(SubSeq(text, i + k - 1, i + k - 1)) = SubSeq(phrase, k, k)

HoldingEndPhrase ==
    {m \in DetectorMessages : m.content # None /\ HoldsEndPhrase(m.content[1])}

\* C13: on a transcript whose contents are strings the detector returns true
\* exactly when the transcript has at least 3 messages and an assistant message
\* among the last 5 holds an end phrase, case ignored; it never raises there.
C13_DetectorCharacterised ==
    (Detected /\ StringContents(helper.argument))
        => LET h == helper.argument
               ends == /\ Len(h) >= 3
                       /\ \E i \in DOMAIN h : /\ i > Len(h) - 5
                                               /\ h[i].role = "assistant"
                                               /\ h[i] \in HoldingEndPhrase
           IN  helper.result = Some(IF ends THEN "true" ELSE "false")

\* true for a closing message five messages back, under messages of other roles
C13_Witness ==
    /\ Detected
    /\ StringContents(helper.argument)
    /\ Len(helper.argument) = 6
    /\ helper.argument[1].role = "assistant"
    /\ helper.argument[2] = Msg("assistant", Some(ClosingMessage), <<>>, "")
    /\ \A i \in 3..6 : helper.argument[i].role \in {"user", "tool"}
    /\ helper.result = Some("true")

\* the assistant messages of h that hold an end phrase
ClosingMessages(h) ==
    {i \in DOMAIN h : /\ h[i].role = "assistant"
                      /\ h[i].content # None
                      /\ EndsConversation[h[i].content[1]]}

\* C11: over the requests of one conversation, the client resending the returned
\* transcript, no more summaries are persisted than the transcript holds closing
\* assistant messages: one closing message gives at most one summary.
C11_OneSummaryPerEnding == Len(summaries) <= Cardinality(ClosingMessages(history))

\* the model invocations of the last request that completed: the completion call
\* of the route, and the call of the summary generator
CompletedInvocations ==
    (IF effects.completions = 1 /\ ~request.upstream.model_failed THEN 1 ELSE 0)
    + (IF effects.summary_calls = 1 /\ request.upstream.summary_reply.ok THEN 1 ELSE 0)

\* C14: every completed model invocation of a /chat or /tool-call-result request,
\* the summary generator's included, adds exactly one analytics record.
C14_RecordPerInvocation ==
    request.route \in {"/chat", "/tool-call-result"}
        => Len(effects.analytics) = CompletedInvocations

\* C15: /get-summary returns the most recently created summary whatever id is
\* asked for, labelled with that id, and answers 404 only when the store holds no
\* summary or the query fails.
C15_LatestSummaryForAnyId ==
    request.route = "/get-summary"
        => IF summaries = <<>> \/ ~request.upstream.query_ok
           THEN response.status = 404 /\ response.summary = None
           ELSE /\ response.status = 200
                /\ response.summary # None
                /\ response.summary[1].conversation_id = request.conversation_id
                /\ response.summary[1].summary = Last(summaries).conversation_summary
                /\ response.summary[1].sentiment = Last(summaries).sentiment
                /\ response.summary[1].keywords = Last(summaries).product_keywords

\* two different summaries are stored and the lookup of conv-A answers with the
\* later one
C15_Witness ==
    /\ request.route = "/get-summary"
    /\ request.conversation_id = "conv-A"
    /\ Len(summaries) = 2
    /\ summaries[1].conversation_summary = "Asked about the Kicks."
    /\ summaries[2].conversation_summary = "Complained about a repair."
    /\ response.status = 200
    /\ response.summary[1].summary = "Complained about a repair."
    /\ response.summary[1].conversation_id = "conv-A"

\* C16: a request makes at most two calls to the model API (the route's and the
\* summary generator's) and at most one call to the video-search API.
C16_CallsPerRequestBounded ==
    request.route \in {"/chat", "/tool-call-result"}
        => /\ effects.completions + effects.summary_calls <= 2
           /\ effects.video_searches <= 1

\* fetch_cars has returned for the filter it was called on
Fetched == helper.function = "fetch_cars" /\ helper.result # None

\* the predicates of a filter on a car: a non-empty make, model or color is a
\* substring of the car's, case ignored; a non-empty stock_number or vin is
\* equal to the car's; year and price are inclusive lower bounds, max_year,
\* max_price and mileage inclusive upper bounds, unless -1; a key that is absent
\* gives no predicate
Satisfies(car, fp) ==
    /\ \A k \in {"make", "model", "color"} \cap DOMAIN fp :
          fp[k] # "" => Contains(Lower(car[k]), Lower(fp[k]))
    /\ \A k \in {"stock_number", "vin"} \cap DOMAIN fp : fp[k] # "" => car[k] = fp[k]
    /\ ("year" \in DOMAIN fp /\ fp["year"] # -1) => car.year >= fp["year"]
    /\ ("price" \in DOMAIN fp /\ fp["price"] # -1) => car.price >= fp["price"]
    /\ ("max_year" \in DOMAIN fp /\ fp["max_year"] # -1) => car.year <= fp["max_year"]
    /\ ("max_price" \in DOMAIN fp /\ fp["max_price"] # -1) => car.price <= fp["max_price"]
    /\ ("mileage" \in DOMAIN fp /\ fp["mileage"] # -1) => car.mileage <= fp["mileage"]

\* C19: fetch_cars returns exactly the cars that satisfy the conjunction of the
\* active predicates of the filter, the whole listing when none is active.
C19_ExactlyTheMatchingCars ==
    Fetched
        => helper.result[1]
             = SelectSeq(CarInventory, LAMBDA car : Satisfies(car, helper.argument))

\* before is a prefix of after
IsPrefix(before, after) ==
    Len(before) <= Len(after) /\ \A i \in DOMAIN before : after[i] = before[i]

\* C17 as stated: the transcript of every successful /chat and /tool-call-result
\* request is a prefix of the transcript returned.
C17_RequestIsPrefix ==
    (ChatAnswered \/ ToolResultAnswered)
        => IsPrefix(request.conversation_history, response.history[1])

\* C17 amended: the messages of the request are returned unchanged, in order and
\* side by side; /tool-call-result adds messages only after them, and so does
\* /chat, except that it puts the persona prompt in front of them when the
\* request holds no system message with the persona marker.
C17_RequestKeptInOrder ==
    (ChatAnswered \/ ToolResultAnswered)
        => LET before == request.conversation_history
               after == response.history[1]
               shift == IF request.route = "/chat" /\ PersonaMessages(before) = {}
                        THEN 1 ELSE 0
           IN  /\ Len(after) > Len(before) + shift
               /\ \A i \in DOMAIN before : after[i + shift] = before[i]
               /\ shift = 1 => after[1] = system_message

\* /chat moved the two messages of the request behind the persona prompt and
\* added the time context and the reply after them
C17_Witness ==
    /\ ChatAnswered
    /\ Len(request.conversation_history) = 2
    /\ ~IsPrefix(request.conversation_history, response.history[1])
    /\ Len(response.history[1]) = 5
    /\ response.history[1][2] = request.conversation_history[1]
    /\ response.history[1][3] = request.conversation_history[2]

\* the summary generator reached save_summary_to_db with a complete summary and
\* the commit failed
SummaryWriteFailed ==
    /\ request.route \in {"/chat", "/tool-call-result"}
    /\ effects.summary_calls = 1
    /\ request.upstream.summary_reply = [ok |-> TRUE, content |-> SummaryJsonFull]
    /\ effects.rows = <<>>

\* C18: a request during which a write to the store fails answers 500, not a
\* success; nothing is stored by the failed write.
C18_FailedWriteIs500 ==
    SummaryWriteFailed => response.status = 500 /\ response.summary = None

NoticeFor(calls) ==
    IF json_loads_args(calls[1].function.arguments).ok
    THEN ProcessingNotice
    ELSE ParseErrorNotice

C21_ToolResultsThenFinalReply ==
    ToolResultAnswered
        => LET before == request.conversation_history
               after == response.history[1]
               calls == PendingCalls(before)
               n == Len(calls)
               final_response == IF request.upstream.content = None THEN ""
                                 ELSE request.upstream.content[1]
           IN  /\ n > 0
               /\ Len(after) = Len(before) + n + 1
               /\ IsPrefix(before, after)
               /\ \A i \in 1..n : /\ after[Len(before) + i].role = "tool"
                                   /\ after[Len(before) + i].tool_call_id = calls[i].id
                                   /\ after[Len(before) + i].content # None
               /\ request.upstream.tool_calls = <<>>
               /\ Last(after) = Msg("assistant", Some(final_response), <<>>, "")
               /\ response.reply = Some(final_response)

\* two calls of different tools were answered in order before the final reply
C21_Witness ==
    /\ ToolResultAnswered
    /\ Len(PendingCalls(request.conversation_history)) = 2
    /\ PendingCalls(request.conversation_history)[1].function.name = "find_car_review_videos"
    /\ PendingCalls(request.conversation_history)[2].function.name = "fetch_cars"
    /\ Len(response.history[1]) = Len(request.conversation_history) + 3
    /\ Last(response.history[1]).content = Some(PlainReply)

\* C22: a /chat response that leaves a tool call pending (tool_call_detected is
\* true) carries no summary, and the request that gave it neither called the
\* summary generator nor persisted a summary.
C22_NoSummaryWhilePending ==
    (ChatAnswered /\ response.tool_call_detected)
        => /\ response.summary = None
           /\ effects.summary_calls = 0
           /\ effects.rows = <<>>

\* C23: detect_end_of_conversation returns a boolean, and never raises, for every
\* transcript of the message data model, transcripts whose recent assistant
\* messages carry tool calls and a null content included.
C23_DetectorTotal ==
    Detected => helper.result \in {Some("true"), Some("false")}

IsUserMessage(m) == m.role = "user"

\* the user messages of h, in their order
UserMessages(h) == SelectSeq(h, IsUserMessage)

\* C24: /chat never adds the request's message field to the transcript. The
\* transcript a 200 answer returns is the request's transcript with at most one
\* persona message before it, at most one time-context message after it, and
\* exactly one new assistant message at the end; its user messages, and those of
\* the transcript submitted to the model, are exactly the user messages of the
\* request's transcript, in their order.
C24_MessageNeverAdded ==
    ChatAnswered
        => LET before == request.conversation_history
               after == response.history[1]
               submitted == SubSeq(after, 1, Len(after) - 1)
           IN  /\ Len(after) > 0
               /\ Last(after).role = "assistant"
               /\ \E persona \in {<<>>, <<system_message>>} :
                  \E time \in {<<>>} \cup {<<time_context_message(now)>> : now \in Times} :
                      submitted = persona \o before \o time
               /\ UserMessages(submitted) = UserMessages(before)
               /\ UserMessages(after) = UserMessages(before)

\* the first request of a conversation: the message field holds text, the request's
\* transcript is empty, and the returned transcript holds the persona, the time
\* context and the answer, and no user message
C24_Witness ==
    /\ ChatAnswered
    /\ request.message = "hi"
    /\ request.conversation_history = <<>>
    /\ Len(response.history[1]) = 3
    /\ UserMessages(response.history[1]) = <<>>

====
